---- MODULE Spec2Model ----
(***************************************************************************)
(* Model of analyze.py: the BlockFetcher batching iterator, the            *)
(* CircularBuffer of timestamps and the per-block loop of main().          *)
(*                                                                         *)
(* The remote node (rpc_connection.batch_) is the environment.  Each       *)
(* batched call either raises, or returns a prefix of the answers that     *)
(* were asked for (a full batch, or a short one).  Every call the fetcher  *)
(* issues is appended to the log `calls`, as a mock source would record    *)
(* it.                                                                     *)
(***************************************************************************)
EXTENDS Integers, Sequences, FiniteSets, TLC

\* ---- bounds of the model ------------------------------------------------
MaxBatch == 2      \* batch_size ranges over 1..MaxBatch
MaxHeight == 4     \* a fetch is issued only while height + batch_size <= MaxHeight
MaxCalls == 7      \* a fetch is issued only while the call log has room for it
MaxTime == 2       \* block['time'] ranges over 0..MaxTime
MaxDelta == 3      \* cutoff_delta (in seconds) ranges over 0..MaxDelta
Capacity == 2      \* capacity of the CircularBuffer in main (2016 in the program)
MaxInserts == 5    \* inserts followed on a CircularBuffer taken alone

Times == 0..MaxTime

VARIABLES
    batch_size,      \* BlockFetcher.batch_size
    scan_coinbase,   \* BlockFetcher.scan_coinbase / args.scan_coinbase
    cutoff_delta,    \* BlockFetcher.cutoff_delta
    height,          \* BlockFetcher.height: the cursor
    blocks,          \* BlockFetcher.blocks: the pending queue
    cutoff,          \* BlockFetcher.cutoff: <<>> is None, <<c>> is the datetime c
    calls,           \* the batched calls received by rpc_connection, in order
    result,          \* outcome of the last __iter__ / __next__ call
    delivered,       \* the blocks returned by __next__ so far, in order
    removed,         \* the blocks popped off the pending queue so far, in order
    buf_capacity,    \* CircularBuffer.capacity of `times`
    items,           \* CircularBuffer.items of `times`
    position,        \* CircularBuffer.position of `times`
    inserted,        \* the items passed to times.insert so far, in order
    last_insert,     \* the value returned by the last times.insert
    info,            \* main's list of per-block records
    pc               \* where main is: "start", "loop", "dumped", "crashed"

params == <<batch_size, scan_coinbase, cutoff_delta>>
buffer == <<buf_capacity, items, position, inserted, last_insert>>
analyzer == <<buf_capacity, items, position, inserted, last_insert, info, pc>>
vars == <<batch_size, scan_coinbase, cutoff_delta, height, blocks, cutoff,
          calls, result, delivered, removed, buf_capacity, items, position,
          inserted, last_insert, info, pc>>

\* ---- the remote node ------------------------------------------------------

\* getblockhash(h): the hash of the block at height h (an opaque value that
\* is not a height).
HashOf(h) == 100 + h

\* The height of the block a hash names.
HeightOfHash(x) == x - 100

\* getblock(hash[, 2]): the block record; with verbosity 2 the transactions
\* are decoded (the first one is the coinbase), otherwise they are txids.
SourceBlock(cmd, t) ==
    [height |-> HeightOfHash(cmd[2]),
     time |-> t,
     difficulty |-> 1,
     tx |-> IF Len(cmd) = 3
            THEN << [vin |-> << {"coinbase", "sequence"} >>, vout |-> << 50 >>],
                    [vin |-> << {"txid", "vout", "sequence"} >>, vout |-> << 7 >>] >>
            ELSE << >>]

\* What the node may do with one fetch whose hash call carries ncmds
\* commands: fail the hash call, or answer the first h_n <= ncmds of them
\* and then fail the block call, or answer the first b_n <= h_n block
\* commands with blocks whose times are tm[1..b_n].
Responses(ncmds) ==
    { [h_ok |-> FALSE, h_n |-> 0, b_ok |-> FALSE, b_n |-> 0, tm |-> << >>] }
    \cup { [h_ok |-> TRUE, h_n |-> n, b_ok |-> FALSE, b_n |-> 0, tm |-> << >>] :
             n \in 0..ncmds }
    \cup UNION { UNION { { [h_ok |-> TRUE, h_n |-> n, b_ok |-> TRUE, b_n |-> m, tm |-> t] :
                             t \in [1..m -> Times] } : m \in 0..n } : n \in 0..ncmds }

\* The response of a call that needs no fetch, where the node is not asked.
NoResponse == [h_ok |-> FALSE, h_n |-> 0, b_ok |-> FALSE, b_n |-> 0, tm |-> << >>]

\* ---- BlockFetcher -----------------------------------------------------------

\* block_time: datetime.fromtimestamp(int(block['time'])), a local datetime,
\* here in seconds of local time (one hour east of UTC).
block_time(block) == block.time + 3600

\* range(height + 1, ...): the heights of phase 1 start one too high.
HashCommands_FromNext(h, bs) == [i \in 1..bs |-> <<"getblockhash", h + i>>]

\* range(height, height + batch_size + 1): one height too many.
HashCommands_Inclusive(h, bs) == [i \in 1..(bs + 1) |-> <<"getblockhash", h + i - 1>>]

\* The commands of phase 1: one getblockhash per height of
\* range(height, height + batch_size).
HashCommands(h, bs) == [i \in 1..bs |-> <<"getblockhash", h + i - 1>>]

\* The verbosity argument passed whatever scan_coinbase is.
BlockCommands_AlwaysVerbose(block_hashes, scan) ==
    [i \in 1..Len(block_hashes) |-> <<"getblock", block_hashes[i], 2>>]

\* The commands of phase 2: one getblock per hash, with verbosity 2 when
\* scan_coinbase is set.
BlockCommands(block_hashes, scan) ==
    [i \in 1..Len(block_hashes) |->
        IF scan THEN <<"getblock", block_hashes[i], 2>>
                ELSE <<"getblock", block_hashes[i]>>]

\* The cursor advanced by one instead of batch_size.
Advance_ByOne(h, bs) == h + 1

\* Line 60, `self.height += self.batch_size`: the cursor after a hash call.
Advance(h, bs) == h + bs

\* _fetch_blocks with `self.height += self.batch_size` moved to the end,
\* after the block call has returned.
FetchBlocks_AdvanceLate(f, bs, scan, resp) ==
    IF f.blocks # << >>
    THEN [f |-> f, exc |-> "AssertionError:56"]
    ELSE
      LET cmds1 == HashCommands(f.height, bs)
          call1 == [phase |-> 1, cmds |-> cmds1, cursor |-> f.height,
                    queued |-> Len(f.blocks), returned |-> resp.h_ok,
                    reply |-> IF resp.h_ok
                              THEN [i \in 1..resp.h_n |-> HashOf(cmds1[i][2])]
                              ELSE << >>]
      IN  IF ~resp.h_ok
          THEN [f |-> [f EXCEPT !.calls = Append(@, call1)], exc |-> "RPCException"]
          ELSE
            LET commands == BlockCommands(call1.reply, scan)
                answer == IF resp.b_ok
                          THEN [i \in 1..resp.b_n |-> SourceBlock(commands[i], resp.tm[i])]
                          ELSE << >>
                call2 == [phase |-> 2, cmds |-> commands, cursor |-> f.height,
                          queued |-> Len(f.blocks), returned |-> resp.b_ok,
                          reply |-> answer]
                logged == Append(Append(f.calls, call1), call2)
            IN  IF ~resp.b_ok
                THEN [f |-> [f EXCEPT !.calls = logged], exc |-> "RPCException"]
                ELSE [f |-> [f EXCEPT !.height = f.height + bs, !.calls = logged,
                                      !.blocks = answer],
                      exc |-> "none"]

\* _fetch_blocks on the fetcher state f = [height, blocks, cutoff, calls],
\* with the node responding resp.  Yields the new state and the exception
\* raised ("none" when it returns).
FetchBlocks(f, bs, scan, resp) ==
    IF f.blocks # << >>
    THEN [f |-> f, exc |-> "AssertionError:56"]
    ELSE
      LET cmds1 == HashCommands(f.height, bs)
          call1 == [phase |-> 1, cmds |-> cmds1, cursor |-> f.height,
                    queued |-> Len(f.blocks), returned |-> resp.h_ok,
                    reply |-> IF resp.h_ok
                              THEN [i \in 1..resp.h_n |-> HashOf(cmds1[i][2])]
                              ELSE << >>]
      IN  IF ~resp.h_ok
          THEN [f |-> [f EXCEPT !.calls = Append(@, call1)], exc |-> "RPCException"]
          ELSE
            LET block_hashes == call1.reply
                advanced == Advance(f.height, bs)
                commands == BlockCommands(block_hashes, scan)
                answer == IF resp.b_ok
                          THEN [i \in 1..resp.b_n |-> SourceBlock(commands[i], resp.tm[i])]
                          ELSE << >>
                call2 == [phase |-> 2, cmds |-> commands, cursor |-> advanced,
                          queued |-> Len(f.blocks), returned |-> resp.b_ok,
                          reply |-> answer]
                logged == Append(Append(f.calls, call1), call2)
            IN  IF ~resp.b_ok
                THEN [f |-> [f EXCEPT !.height = advanced, !.calls = logged],
                      exc |-> "RPCException"]
                ELSE [f |-> [f EXCEPT !.height = advanced, !.calls = logged,
                                      !.blocks = answer],
                      exc |-> "none"]

\* The start test taken as always true: __iter__ without its assertion.
NotStarted_Always(h) == TRUE

\* The test of line 68, `self.height == 0`: nothing has been fetched yet.
NotStarted(h) == h = 0

\* __iter__: the new state and the exception raised.
IterOp(f, bs, scan, delta, resp) ==
    IF ~NotStarted(f.height)
    THEN [f |-> f, exc |-> "AssertionError:68"]
    ELSE
      LET fetched == FetchBlocks(f, bs, scan, resp)
      IN  IF fetched.exc # "none" THEN fetched
          ELSE IF fetched.f.blocks = << >>
          THEN [f |-> fetched.f, exc |-> "IndexError"]
          ELSE [f |-> [fetched.f EXCEPT !.cutoff =
                          << block_time(fetched.f.blocks[1]) + delta >>],
                exc |-> "none"]

\* The cutoff test without its equality: `>` for `>=`.
PastCutoff_Strict(block, c) == block_time(block) > c

\* The test of line 78: the block's time has reached the cutoff.
PastCutoff(block, c) == block_time(block) >= c

\* The refill test taken as always true: __next__ fetches on every call.
NeedsFetch_Always(queue) == TRUE

\* The test of line 75, `not self.blocks`: the pending queue is empty.
NeedsFetch(queue) == queue = << >>

\* __next__: the new state, the exception raised, the block popped off the
\* queue and the block returned (<< >> when none is).
NextOp(f, bs, scan, resp) ==
    IF f.height = 0
    THEN [f |-> f, exc |-> "AssertionError:74", popped |-> << >>, block |-> << >>]
    ELSE
      LET fetched == IF NeedsFetch(f.blocks) THEN FetchBlocks(f, bs, scan, resp)
                     ELSE [f |-> f, exc |-> "none"]
      IN  IF fetched.exc # "none"
          THEN [f |-> fetched.f, exc |-> fetched.exc, popped |-> << >>, block |-> << >>]
          ELSE IF fetched.f.blocks = << >>
          THEN [f |-> fetched.f, exc |-> "IndexError", popped |-> << >>, block |-> << >>]
          ELSE
            LET block == Head(fetched.f.blocks)
                rest == [fetched.f EXCEPT !.blocks = Tail(@)]
            IN  IF rest.cutoff = << >>
                THEN [f |-> rest, exc |-> "TypeError", popped |-> << block >>,
                      block |-> << >>]
                ELSE IF PastCutoff(block, rest.cutoff[1])
                THEN [f |-> rest, exc |-> "StopIteration", popped |-> << block >>,
                      block |-> << >>]
                ELSE [f |-> rest, exc |-> "none", popped |-> << block >>,
                      block |-> << block >>]

\* The fetcher's fields as one record.
Fetcher == [height |-> height, blocks |-> blocks, cutoff |-> cutoff, calls |-> calls]

\* A call of __iter__ reaches _fetch_blocks.
IterFetches == NotStarted(height)

\* A call of __next__ reaches _fetch_blocks.
NextFetches == height # 0 /\ NeedsFetch(blocks)

\* The model follows a fetch only while the cursor and the call log stay
\* within the bounds.
FetchInBounds == height + batch_size <= MaxHeight /\ Len(calls) + 2 <= MaxCalls

\* ---- the fetcher driven by an arbitrary consumer ------------------------------

Init ==
    /\ batch_size \in 1..MaxBatch
    /\ scan_coinbase \in BOOLEAN
    /\ cutoff_delta \in 0..MaxDelta
    /\ height = 0
    /\ blocks = << >>
    /\ cutoff = << >>
    /\ calls = << >>
    /\ result = [op |-> "init", exc |-> "none", popped |-> << >>, block |-> << >>,
                 fetched |-> FALSE, before |-> 0]
    /\ delivered = << >>
    /\ removed = << >>
    /\ buf_capacity = Capacity
    /\ items = << >>
    /\ position = 0
    /\ inserted = << >>
    /\ last_insert = FALSE
    /\ info = << >>
    /\ pc = "start"

\* The consumer calls iter(fetcher).
Iter ==
    /\ IterFetches => FetchInBounds
    /\ \E resp \in (IF IterFetches THEN Responses(Len(HashCommands(height, batch_size)))
                    ELSE {NoResponse}) :
         LET r == IterOp(Fetcher, batch_size, scan_coinbase, cutoff_delta, resp)
         IN  /\ height' = r.f.height
             /\ blocks' = r.f.blocks
             /\ cutoff' = r.f.cutoff
             /\ calls' = r.f.calls
             /\ result' = [op |-> "iter", exc |-> r.exc, popped |-> << >>, block |-> << >>,
                           fetched |-> Len(r.f.calls) > Len(calls), before |-> height]
    /\ UNCHANGED <<delivered, removed, params, analyzer>>

\* The consumer calls next(fetcher).
NextCall ==
    /\ NextFetches => FetchInBounds
    /\ \E resp \in (IF NextFetches THEN Responses(Len(HashCommands(height, batch_size)))
                    ELSE {NoResponse}) :
         LET r == NextOp(Fetcher, batch_size, scan_coinbase, resp)
         IN  /\ height' = r.f.height
             /\ blocks' = r.f.blocks
             /\ cutoff' = r.f.cutoff
             /\ calls' = r.f.calls
             /\ result' = [op |-> "next", exc |-> r.exc, popped |-> r.popped, block |-> r.block,
                           fetched |-> Len(r.f.calls) > Len(calls), before |-> height]
             /\ delivered' = delivered \o r.block
             /\ removed' = removed \o r.popped
    /\ UNCHANGED <<params, analyzer>>

Next == Iter \/ NextCall

Spec == Init /\ [][Next]_vars

\* ---- CircularBuffer -----------------------------------------------------------

\* insert reporting whether the buffer is full once the item is in.
insert_ReportsAfter(buf, capacity, item) ==
    LET full == Len(buf.items) = capacity
    IN  IF full
        THEN [buf |-> [items |-> [buf.items EXCEPT ![buf.position + 1] = item],
                       position |-> (buf.position + 1) % capacity],
              full |-> TRUE]
        ELSE [buf |-> [buf EXCEPT !.items = Append(@, item)],
              full |-> Len(buf.items) + 1 = capacity]

\* insert on the buffer buf = [items, position] of the given capacity:
\* the new buffer and the value returned.
insert(buf, capacity, item) ==
    LET full == Len(buf.items) = capacity
    IN  IF full
        THEN [buf |-> [items |-> [buf.items EXCEPT ![buf.position + 1] = item],
                       position |-> (buf.position + 1) % capacity],
              full |-> full]
        ELSE [buf |-> [buf EXCEPT !.items = Append(@, item)], full |-> full]

\* tail ignoring the position: self.items[0].
tail_First(buf) == buf.items[1]

\* tail: self.items[self.position].
tail(buf) == buf.items[buf.position + 1]

\* ---- the per-block computations of main -----------------------------------------

\* A quotient of two integers, kept exact: num / den.
Quot(n, d) == [num |-> n, den |-> d]

\* estimate_hash_rate(difficulty, seconds), seconds being a quotient.  The
\* value is in units of 2^48 / 0xffff hashes per second; dividing by a zero
\* number of seconds raises ZeroDivisionError.
estimate_hash_rate(difficulty, seconds) ==
    IF seconds.num = 0
    THEN [exc |-> "ZeroDivisionError", value |-> << >>]
    ELSE [exc |-> "none", value |-> << Quot(difficulty * seconds.den, seconds.num) >>]

RECURSIVE SumSeq(_)
\* sum(...) over a list of output values.
SumSeq(s) == IF s = << >> THEN 0 ELSE Head(s) + SumSeq(Tail(s))

RECURSIVE CoinbaseReward(_)
\* The loop of block_reward over block['tx']: the outputs of the first
\* transaction that has an input with a 'coinbase' key; falling off the end
\* of the list reaches `assert False`.
CoinbaseReward(txs) ==
    IF txs = << >>
    THEN [exc |-> "AssertionError:100", value |-> << >>]
    ELSE IF \E i \in 1..Len(Head(txs).vin) : "coinbase" \in Head(txs).vin[i]
    THEN [exc |-> "none", value |-> << SumSeq(Head(txs).vout) >>]
    ELSE CoinbaseReward(Tail(txs))

\* block_reward(block, scan_coinbase).  Without scan_coinbase the code
\* evaluates block(['height']), a call of a dict, which raises TypeError.
block_reward(block, scan) ==
    IF ~scan
    THEN [exc |-> "TypeError", value |-> << >>]
    ELSE CoinbaseReward(block.tx)

\* The body of the loop appending a record only when the interval is known.
LoopBody_SkipsUnfilled(block, buf, infos, scan) ==
    LET timestamp == block_time(block)
        difficulty == block.difficulty
        ins == insert(buf, buf_capacity, timestamp)
        elapsed == timestamp - tail(ins.buf)
        time_per_block == Quot(elapsed, buf_capacity)
        rate == estimate_hash_rate(difficulty, time_per_block)
        reward == block_reward(block, scan)
    IN  IF ins.full /\ rate.exc # "none"
        THEN [buf |-> ins.buf, full |-> ins.full, info |-> infos, exc |-> rate.exc]
        ELSE IF reward.exc # "none"
        THEN [buf |-> ins.buf, full |-> ins.full, info |-> infos, exc |-> reward.exc]
        ELSE IF ~ins.full
        THEN [buf |-> ins.buf, full |-> ins.full, info |-> infos, exc |-> "none"]
        ELSE [buf |-> ins.buf, full |-> ins.full,
              info |-> Append(infos,
                         [height |-> block.height,
                          time |-> timestamp - 3600,
                          difficulty |-> difficulty,
                          interval |-> << time_per_block >>,
                          reward |-> reward.value[1],
                          hashrate |-> rate.value]),
              exc |-> "none"]

\* One pass of the body of main's for loop (lines 122-137) over `block`:
\* the new buffer, the value times.insert returned, the new info list and
\* the exception raised.
LoopBody(block, buf, infos, scan) ==
    LET timestamp == block_time(block)
        difficulty == block.difficulty
        ins == insert(buf, buf_capacity, timestamp)
        elapsed == timestamp - tail(ins.buf)
        time_per_block == Quot(elapsed, buf_capacity)
        rate == estimate_hash_rate(difficulty, time_per_block)
        reward == block_reward(block, scan)
    IN  IF ins.full /\ rate.exc # "none"
        THEN [buf |-> ins.buf, full |-> ins.full, info |-> infos, exc |-> rate.exc]
        ELSE IF reward.exc # "none"
        THEN [buf |-> ins.buf, full |-> ins.full, info |-> infos, exc |-> reward.exc]
        ELSE [buf |-> ins.buf, full |-> ins.full,
              info |-> Append(infos,
                         [height |-> block.height,
                          time |-> timestamp - 3600,
                          difficulty |-> difficulty,
                          interval |-> IF ins.full THEN << time_per_block >> ELSE << >>,
                          reward |-> reward.value[1],
                          hashrate |-> IF ins.full THEN rate.value ELSE << >>]),
              exc |-> "none"]

\* ---- main ---------------------------------------------------------------------

\* main up to the start of the for loop: the buffer and the fetcher are
\* constructed and iter(fetcher) is called.
MainBegin ==
    /\ pc = "start"
    /\ IterFetches => FetchInBounds
    /\ \E resp \in (IF IterFetches THEN Responses(Len(HashCommands(height, batch_size)))
                    ELSE {NoResponse}) :
         LET r == IterOp(Fetcher, batch_size, scan_coinbase, cutoff_delta, resp)
         IN  /\ height' = r.f.height
             /\ blocks' = r.f.blocks
             /\ cutoff' = r.f.cutoff
             /\ calls' = r.f.calls
             /\ result' = [op |-> "iter", exc |-> r.exc, popped |-> << >>, block |-> << >>,
                           fetched |-> Len(r.f.calls) > Len(calls), before |-> height]
             /\ pc' = IF r.exc = "none" THEN "loop" ELSE "crashed"
    /\ UNCHANGED <<delivered, removed, params, buffer, info>>

\* One iteration of the for loop: next(fetcher), then the body on the block
\* it returned.  StopIteration ends the loop and the records are dumped; any
\* other exception ends the program.
MainLoop ==
    /\ pc = "loop"
    /\ NextFetches => FetchInBounds
    /\ \E resp \in (IF NextFetches THEN Responses(Len(HashCommands(height, batch_size)))
                    ELSE {NoResponse}) :
         LET r == NextOp(Fetcher, batch_size, scan_coinbase, resp)
             buf == [items |-> items, position |-> position]
             body == IF r.block = << >>
                     THEN [buf |-> buf, full |-> last_insert, info |-> info, exc |-> r.exc]
                     ELSE LoopBody(r.block[1], buf, info, scan_coinbase)
         IN  /\ height' = r.f.height
             /\ blocks' = r.f.blocks
             /\ cutoff' = r.f.cutoff
             /\ calls' = r.f.calls
             /\ delivered' = delivered \o r.block
             /\ removed' = removed \o r.popped
             /\ items' = body.buf.items
             /\ position' = body.buf.position
             /\ inserted' = inserted \o [i \in 1..Len(r.block) |-> block_time(r.block[i])]
             /\ last_insert' = body.full
             /\ info' = body.info
             /\ result' = [op |-> "next", exc |-> body.exc, popped |-> r.popped, block |-> r.block,
                           fetched |-> Len(r.f.calls) > Len(calls), before |-> height]
             /\ pc' = CASE body.exc = "none" -> "loop"
                        [] body.exc = "StopIteration" -> "dumped"
                        [] OTHER -> "crashed"
    /\ UNCHANGED <<params, buf_capacity>>

MainNext == MainBegin \/ MainLoop

MainSpec == Init /\ [][MainNext]_vars

\* ---- a CircularBuffer taken alone ------------------------------------------------

\* A new CircularBuffer(capacity), for every capacity of 1..Capacity.
BufInit ==
    /\ buf_capacity \in 1..Capacity
    /\ items = << >>
    /\ position = 0
    /\ inserted = << >>
    /\ last_insert = FALSE
    /\ batch_size = 1
    /\ scan_coinbase = FALSE
    /\ cutoff_delta = 0
    /\ height = 0
    /\ blocks = << >>
    /\ cutoff = << >>
    /\ calls = << >>
    /\ result = [op |-> "init", exc |-> "none", popped |-> << >>, block |-> << >>,
                 fetched |-> FALSE, before |-> 0]
    /\ delivered = << >>
    /\ removed = << >>
    /\ info = << >>
    /\ pc = "start"

\* buffer.insert(item), for every item.
BufInsert ==
    /\ Len(inserted) < MaxInserts
    /\ \E item \in Times :
         LET r == insert([items |-> items, position |-> position], buf_capacity, item)
         IN  /\ items' = r.buf.items
             /\ position' = r.buf.position
             /\ last_insert' = r.full
             /\ inserted' = Append(inserted, item)
    /\ UNCHANGED <<params, height, blocks, cutoff, calls, result, delivered, removed,
                   buf_capacity, info, pc>>

BufNext == BufInsert

BufSpec == BufInit /\ [][BufNext]_vars

\* ---- properties -----------------------------------------------------------------

\* The call did not return: the batched call raised.
Failed(c) == ~c.returned

\* The call returned fewer answers than it carried commands.
Short(c) == c.returned /\ Len(c.reply) < Len(c.cmds)

\* The last call in the log.
LastCall == calls[Len(calls)]

\* The log positions of the calls issued by the last fetch.
LastFetchCalls ==
    IF calls = << >> THEN {}
    ELSE IF LastCall.phase = 2 THEN {Len(calls) - 1, Len(calls)}
    ELSE {Len(calls)}

\* C1: the k-th block delivered to the consumer (k = 0, 1, 2, ...) is the
\* block at height k, for every batch_size and every sequence of pulls.
C1_DeliveredInOrder ==
    \A k \in 1..Len(delivered) : delivered[k].height = k - 1

\* C2: every batched call, of phase 1 or of phase 2, is issued while the
\* pending queue is empty, and the assertion at the top of _fetch_blocks
\* fails in no sequence of __iter__ / __next__ calls.
C2_FetchOnlyWhenDrained ==
    /\ \A i \in 1..Len(calls) : calls[i].queued = 0
    /\ result.exc # "AssertionError:56"

\* C2 witness: a __next__ call refilled the queue after earlier blocks had
\* been delivered, and another one returned a block without fetching.
C2_RefillAfterDelivery ==
    /\ result.op = "next" /\ ~result.fetched /\ result.block # << >>
    /\ Len(calls) >= 4 /\ Len(delivered) >= 3

\* C3: a fetch in which a batched call returned fewer results than were
\* requested fails: the call that fetched raises, the short result is not
\* installed as the pending queue and no block of it is delivered.
C3_ShortFetchFails ==
    (result.fetched /\ \E i \in LastFetchCalls : Short(calls[i]))
        => /\ result.exc \notin {"none", "StopIteration"}
           /\ blocks = << >>
           /\ result.block = << >>

\* The call was issued by a fetch of __next__ (those of __iter__ carry the
\* cursor 0, and batch_size in phase 2).
IssuedByNext(c) == IF c.phase = 1 THEN c.cursor > 0 ELSE c.cursor > batch_size

\* C4: once a pull has failed because a batched call failed, no later pull
\* on the same fetcher delivers a block and the failed batched call is not
\* issued again.
C4_FailureIsFatal ==
    [][(\E i \in 1..Len(calls) : Failed(calls[i]) /\ IssuedByNext(calls[i]))
          => /\ delivered' = delivered
             /\ \A j \in (Len(calls) + 1)..Len(calls') :
                  \A i \in 1..Len(calls) :
                     Failed(calls[i]) => calls'[j].cmds # calls[i].cmds]_vars

\* C5: within one fetch the cursor is advanced by batch_size after the hash
\* call has returned and before the block call is issued: the block call
\* sees the advanced cursor; when the block call fails the cursor is its
\* old value + batch_size and the queue is still empty; when the hash call
\* fails the cursor is unchanged.
C5_CursorAdvancesBetweenPhases ==
    /\ \A i \in 1..Len(calls) :
          calls[i].phase = 2 =>
             /\ i > 1
             /\ calls[i - 1].phase = 1 /\ calls[i - 1].returned
             /\ calls[i].cursor = calls[i - 1].cursor + batch_size
    /\ (result.fetched /\ LastCall.phase = 2 /\ Failed(LastCall))
          => height = result.before + batch_size /\ blocks = << >>
    /\ (result.fetched /\ LastCall.phase = 1)
          => Failed(LastCall) /\ height = result.before

\* C5 witness: a __next__ call past the first batch whose block call failed.
C5_BlockCallFailed ==
    /\ result.op = "next" /\ result.fetched /\ result.before > 0
    /\ LastCall.phase = 2 /\ Failed(LastCall)

\* Every batched call so far returned as many answers as it carried commands.
SourceAnswersFully ==
    \A i \in 1..Len(calls) : ~Failed(calls[i]) /\ ~Short(calls[i])

\* C6: the stream never ends on its own: no call signals end-of-stream.
C6_NeverEnds == result.exc # "StopIteration"

\* C6 (amended): on a started stream whose source keeps answering full
\* batches, each pull either returns the block it dequeued or signals
\* end-of-stream, and it signals end-of-stream exactly when the time of the
\* block it dequeued has reached the cutoff.
C6_EndsOnlyAtCutoff ==
    (result.op = "next" /\ cutoff # << >> /\ SourceAnswersFully)
        => /\ result.exc \in {"none", "StopIteration"}
           /\ result.popped # << >>
           /\ result.exc = "StopIteration"
                 <=> result.popped[1].time + 3600 >= cutoff[1]
           /\ result.exc = "none" <=> result.block = result.popped

\* C6 witness: a pull ended the stream after blocks had been delivered, on a
\* block whose time equals the cutoff.
C6_EndedAtCutoff ==
    /\ result.op = "next" /\ result.exc = "StopIteration" /\ SourceAnswersFully
    /\ delivered # << >>
    /\ result.popped[1].time + 3600 = cutoff[1]

\* The hash calls that returned, in order.
SuccessfulHashCalls == SelectSeq(calls, LAMBDA c : c.phase = 1 /\ c.returned)

\* The heights requested by the hash calls so far.
RequestedHeights ==
    { calls[i].cmds[j][2] : i \in { k \in 1..Len(calls) : calls[k].phase = 1 },
                            j \in 1..batch_size }

\* C7: the n-th successful hash call (n = 0, 1, ...) requests getblockhash
\* for the heights n*batch_size .. (n+1)*batch_size - 1 in ascending order;
\* while no call has failed every height has been requested at most once and
\* the requested heights are a gap-free prefix of 0, 1, 2, ...
C7_HashCallHeights ==
    /\ \A n \in 1..Len(SuccessfulHashCalls) :
          SuccessfulHashCalls[n].cmds =
             [i \in 1..batch_size |-> <<"getblockhash", (n - 1) * batch_size + i - 1>>]
    /\ (\A i \in 1..Len(calls) : ~Failed(calls[i]))
          => /\ RequestedHeights = 0..(Cardinality(RequestedHeights) - 1)
             /\ Cardinality(RequestedHeights) =
                   batch_size * Len(SuccessfulHashCalls)

\* C7 witness: two hash calls of two heights each, no call having failed.
C7_TwoHashCalls ==
    /\ batch_size >= 2 /\ Len(SuccessfulHashCalls) >= 2
    /\ \A i \in 1..Len(calls) : ~Failed(calls[i])

\* C8: the pending queue holds at most batch_size blocks.
C8_QueueWithinBatch == Len(blocks) <= batch_size

\* C8 witness: a fetch has just put a whole batch of two or more blocks in
\* the queue.
C8_FullBatchQueued ==
    /\ batch_size >= 2 /\ result.fetched
    /\ Len(blocks) + Len(result.popped) = batch_size

\* C9: the block call of a fetch carries one getblock command per hash the
\* hash call returned, in the same order, each with the verbosity argument 2
\* when scan_coinbase is set and none with a verbosity argument otherwise;
\* every hash call that returned is followed by its block call.
C9_BlockCommands ==
    /\ \A i \in 1..Len(calls) :
          (calls[i].phase = 1 /\ calls[i].returned)
             => i < Len(calls) /\ calls[i + 1].phase = 2
    /\ \A i \in 2..Len(calls) :
          calls[i].phase = 2 =>
             LET hashes == calls[i - 1].reply
                 cmds == calls[i].cmds
             IN  /\ Len(cmds) = Len(hashes)
                 /\ \A j \in 1..Len(cmds) :
                       /\ cmds[j][1] = "getblock"
                       /\ cmds[j][2] = hashes[j]
                       /\ Len(cmds[j]) = IF scan_coinbase THEN 3 ELSE 2
                       /\ scan_coinbase => cmds[j][3] = 2

\* C9 witness: a block call of two commands without verbosity.
C9_PlainBlockCall ==
    /\ ~scan_coinbase /\ calls # << >>
    /\ LastCall.phase = 2 /\ Len(LastCall.cmds) = 2 /\ LastCall.cursor > batch_size

\* C10: every per-block step of main completes without a division by zero
\* or any other error, whatever the order of the timestamps (stated with
\* coinbase scanning on; without it block_reward itself raises on every
\* block).
C10_BlockStepCompletes ==
    (scan_coinbase /\ result.op = "next" /\ result.block # << >>)
        => result.exc = "none"

\* C11: on a stream whose blocks are a constant s seconds apart
\* (time = s * height), every interval main reports equals s: the elapsed
\* time divided by the capacity N spans N block-to-block gaps.
C11_IntervalIsSpacing ==
    \A s \in 1..MaxTime :
       (\A k \in 1..Len(delivered) : delivered[k].time = s * delivered[k].height)
          => \A k \in 1..Len(info) :
                info[k].interval # << >>
                   => info[k].interval[1].num = s * info[k].interval[1].den

C13_StartsOnlyOnce ==
    [][(height # 0 /\ result'.op = "iter")
          => /\ result'.exc = "AssertionError:68"
             /\ UNCHANGED <<height, blocks, cutoff, calls, delivered, removed>>]_vars

\* C13 witness: __iter__ was called, and failed, on a fetcher that had
\* delivered a block and still held one in its queue.
C13_RestartRefused ==
    /\ result.op = "iter" /\ result.exc = "AssertionError:68"
    /\ delivered # << >> /\ blocks # << >>

\* The buffer `times` as one record.
Buffer == [items |-> items, position |-> position]

Min(a, b) == IF a <= b THEN a ELSE b

\* C15: after n >= 1 inserts tail() is the item inserted min(n, capacity) - 1
\* inserts before the most recent one.
C15_TailIsOldest ==
    inserted # << >> =>
       tail(Buffer) = inserted[Len(inserted) - (Min(Len(inserted), buf_capacity) - 1)]

\* C15 witness: a buffer of capacity two or more that has wrapped around,
\* its oldest item differing from the first slot and from the newest item.
C15_WrappedBuffer ==
    /\ buf_capacity >= 2 /\ Len(inserted) > buf_capacity /\ position # 0
    /\ tail(Buffer) # items[1]
    /\ tail(Buffer) # inserted[Len(inserted)]

\* C16: as long as the source returns full batches, the cursor equals the
\* number of blocks removed from the pending queue so far plus the length of
\* the queue, it is a multiple of batch_size, and the block at the head of a
\* non-empty queue has the height cursor - (queue length).
C16_CursorAccounts ==
    SourceAnswersFully
       => /\ height = Len(removed) + Len(blocks)
          /\ height % batch_size = 0
          /\ blocks # << >> => blocks[1].height = height - Len(blocks)

\* C16 witness: after two full batches of two blocks or more, some blocks
\* removed and some still queued.
C16_SecondBatchQueued ==
    /\ SourceAnswersFully /\ batch_size >= 2 /\ height >= 2 * batch_size
    /\ blocks # << >> /\ Len(removed) > batch_size

\* C17: every block __next__ returns has a time strictly below the cutoff,
\* the cutoff is the time of the height-0 block plus cutoff_delta and never
\* changes, a pull that dequeues a block whose time has reached the cutoff
\* raises StopIteration instead of returning it, and with cutoff_delta <= 0
\* no block at all is delivered.
C17_DeliveredBeforeCutoff ==
    /\ \A k \in 1..Len(delivered) :
          cutoff # << >> /\ block_time(delivered[k]) < cutoff[1]
    /\ cutoff # << >>
          => \E i \in 1..Len(calls) :
                /\ calls[i].phase = 2 /\ calls[i].reply # << >>
                /\ calls[i].reply[1].height = 0
                /\ cutoff[1] = block_time(calls[i].reply[1]) + cutoff_delta
    /\ (result.op = "next" /\ result.popped # << >> /\ cutoff # << >>
           /\ block_time(result.popped[1]) >= cutoff[1])
          => result.exc = "StopIteration" /\ result.block = << >>
    /\ cutoff_delta <= 0 => delivered = << >>

\* __next__ has raised StopIteration at some point: with the cutoff set, a
\* block was popped and not delivered.
EverStopped == cutoff # << >> /\ Len(removed) > Len(delivered)

\* C18: once __next__ has raised StopIteration, every later __next__ call
\* raises StopIteration too, returns no block and issues no batched call.
C18_EndIsPermanent ==
    [][(EverStopped /\ result'.op = "next")
          => /\ result'.exc = "StopIteration"
             /\ delivered' = delivered
             /\ calls' = calls]_vars

\* C19: the records of heights 0 .. C-1 carry a null interval and a null
\* hashrate, and every record of a later height carries the interval
\* (its time - the time of the block C-1 heights earlier) / C.
C19_IntervalByHeight ==
    \A k \in 1..Len(info) :
       /\ info[k].height < buf_capacity
             => info[k].interval = << >> /\ info[k].hashrate = << >>
       /\ info[k].height >= buf_capacity
             => \E j \in 1..Len(info) :
                   /\ info[j].height = info[k].height - (buf_capacity - 1)
                   /\ info[k].interval =
                         << Quot(info[k].time - info[j].time, buf_capacity) >>

\* C20: with coinbase scanning disabled block_reward returns without error
\* and main emits, for every block, a record whose reward is the subsidy
\* 50 * (1/2)^(height div 210000), which is 50 at the heights followed here.
C20_SubsidyWithoutScan ==
    (~scan_coinbase /\ result.op = "next" /\ result.block # << >>)
        => /\ result.exc = "none"
           /\ info # << >>
           /\ info[Len(info)].height = result.block[1].height
           /\ info[Len(info)].reward = 50

====
